---- MODULE Spec2Model ----
(***************************************************************************)
(* Buddy allocator (brocksauvage/BuddyAllocator).                          *)
(*                                                                         *)
(* The model follows src/unnamed/part_000, the complete version of the     *)
(* allocator: buddy_init, order_exp, split, buddy_alloc and buddy_free.    *)
(* Addresses are byte offsets from g_memory; a page record is its index in *)
(* g_pages; a free list is the sequence of page indices linked from        *)
(* free_area[o], head first.                                               *)
(***************************************************************************)
EXTENDS Integers, Sequences, FiniteSets, TLC

\* ------------------------------------------------------------------------
\* Configuration.  The source has MIN_ORDER 12 and MAX_ORDER 20 (256 pages);
\* the arena is scaled to Levels orders above MIN_ORDER.
\* ------------------------------------------------------------------------
MIN_ORDER == 12

Levels == 2

MAX_ORDER == MIN_ORDER + Levels

MEMORY_AREA == 2 ^ MAX_ORDER

PAGE_SIZE == 2 ^ MIN_ORDER

PAGE_NUM == MEMORY_AREA \div PAGE_SIZE

\* at most MaxLive allocations are outstanding at a time
MaxLive == 3

\* the null pointer, and "no page record" (buddy_block == NULL)
NULL == 0 - 1

Orders == MIN_ORDER .. MAX_ORDER

PageIdx == 0 .. (PAGE_NUM - 1)

\* request sizes the caller tries: invalid ones, the exact powers of two, and
\* a size just above a power of two
Sizes == {0 - 1, 0, PAGE_SIZE + 1, MEMORY_AREA + 1} \cup {2 ^ o : o \in Orders}

\* ------------------------------------------------------------------------
\* Address arithmetic
\* ------------------------------------------------------------------------
PAGE_TO_ADDR(page_idx) == page_idx * PAGE_SIZE

ADDR_TO_PAGE(addr) == addr \div PAGE_SIZE

\* offset ^ (1 << o): flip bit o of the offset
BUDDY_ADDR(addr, o) ==
    IF (addr \div (2 ^ o)) % 2 = 1 THEN addr - 2 ^ o ELSE addr + 2 ^ o

\* ------------------------------------------------------------------------
\* Intrusive list operations (list.h): a node is linked in at most one list
\* ------------------------------------------------------------------------
\* list_add(&g_pages[idx].list, &free_area[o]): insert right after the head
list_add(fa, idx, o) == [fa EXCEPT ![o] = <<idx>> \o @]

\* list_del(&g_pages[idx].list): unlink the node from the list it is in
list_del(fa, idx) == [o \in DOMAIN fa |-> SelectSeq(fa[o], LAMBDA x : x # idx)]

list_empty(fa, o) == fa[o] = <<>>

\* ------------------------------------------------------------------------
\* buddy_init
\* ------------------------------------------------------------------------
\* the first loop: every page record reset
InitPageRecords ==
    [i \in PageIdx |-> [block_size |-> 0 - 1, page_index |-> i,
                        block_address |-> PAGE_TO_ADDR(i)]]

\* the second loop: every free list emptied
InitFreeLists == [o \in Orders |-> <<>>]

buddy_init_no_order ==
    [free_area |-> list_add(InitFreeLists, 0, MAX_ORDER),
     g_pages   |-> InitPageRecords]

buddy_init ==
    [free_area |-> list_add(InitFreeLists, 0, MAX_ORDER),
     g_pages   |-> [InitPageRecords EXCEPT ![0].block_size = MAX_ORDER]]

\* ------------------------------------------------------------------------
\* order_exp
\* ------------------------------------------------------------------------
\* the loop with <= for < in the size test
RECURSIVE order_exp_loop_le(_, _)
order_exp_loop_le(order_num, size) ==
    IF (2 ^ order_num) <= size /\ order_num < MAX_ORDER
    THEN order_exp_loop_le(order_num + 1, size)
    ELSE order_num

RECURSIVE order_exp_loop(_, _)
order_exp_loop(order_num, size) ==
    IF (2 ^ order_num) < size /\ order_num < MAX_ORDER
    THEN order_exp_loop(order_num + 1, size)
    ELSE order_num

order_exp(size) == order_exp_loop(MIN_ORDER, size)

\* order_exp of src/buddy.c: the loop also runs at order_num = MAX_ORDER
RECURSIVE order_exp_loop_buddy_c(_, _)
order_exp_loop_buddy_c(order_num, size) ==
    IF (2 ^ order_num) < size /\ order_num <= MAX_ORDER
    THEN order_exp_loop_buddy_c(order_num + 1, size)
    ELSE order_num

order_exp_buddy_c(size) == order_exp_loop_buddy_c(MIN_ORDER, size)

\* ------------------------------------------------------------------------
\* split: the free lists after split(order, targetOrder, index)
\* ------------------------------------------------------------------------
\* the page record split puts on free_area[order-1]
split_page_lower(order, index) == index

split_page(order, index) ==
    ADDR_TO_PAGE(BUDDY_ADDR(PAGE_TO_ADDR(index), order - 1))

\* a split that files each upper half under the order being halved
RECURSIVE split_same_order(_, _, _, _)
split_same_order(order, targetOrder, index, fa) ==
    IF order = targetOrder
    THEN fa
    ELSE split_same_order(order - 1, targetOrder, index,
                          list_add(fa, split_page(order, index), order))

RECURSIVE split(_, _, _, _)
split(order, targetOrder, index, fa) ==
    IF order = targetOrder
    THEN fa
    ELSE split(order - 1, targetOrder, index,
               list_add(fa, split_page(order, index), order - 1))

\* list_add of a node that may already be linked at the head of that list:
\* the node stays the only entry a traversal from the head meets
list_add_again(fa, idx, o) ==
    IF \E p \in 1 .. Len(fa[o]) : fa[o][p] = idx THEN fa ELSE list_add(fa, idx, o)

\* split of src/buddy.c, one level of the recursion: the buddy of the block at
\* order - 1 is put on list order - 1; the function then calls itself with the
\* same arguments
split_buddy_c_level(order, index, fa) ==
    list_add_again(fa, split_page(order, index), order - 1)

\* ------------------------------------------------------------------------
\* buddy_alloc
\* ------------------------------------------------------------------------
\* last order the scan loop of buddy_alloc looks at
ScanLast_short == MAX_ORDER - 1

ScanLast == MAX_ORDER

\* the first i in order .. ScanLast with a non-empty list, or ScanLast + 1
RECURSIVE alloc_scan(_, _)
alloc_scan(i, fa) ==
    IF i > ScanLast THEN i
    ELSE IF ~list_empty(fa, i) THEN i
    ELSE alloc_scan(i + 1, fa)

\* result of buddy_alloc(size) on free lists fa and page records pages
buddy_alloc(size, fa, pages) ==
    LET order == order_exp(size)
        i     == alloc_scan(order, fa)
    IN  IF i > ScanLast
        THEN [ret |-> NULL, free_area |-> fa, g_pages |-> pages]
        ELSE LET entry == Head(fa[i])
             IN  IF i = order
                 THEN [ret       |-> pages[entry].block_address,
                       free_area |-> list_del(fa, entry),
                       g_pages   |-> pages]
                 ELSE [ret       |-> pages[entry].block_address,
                       free_area |-> split(i, order, pages[entry].page_index,
                                           list_del(fa, entry)),
                       g_pages   |-> [pages EXCEPT ![entry].block_size = order]]

\* ------------------------------------------------------------------------
\* buddy_init and buddy_alloc of src/buddy.c
\* ------------------------------------------------------------------------
\* buddy_init of src/buddy.c: page 0 is listed, its block_size stays -1
buddy_init_buddy_c ==
    [free_area |-> list_add(InitFreeLists, 0, MAX_ORDER),
     g_pages   |-> InitPageRecords]

\* the scan loop: for (i = order; i < MAX_ORDER; i++)
RECURSIVE alloc_scan_buddy_c(_, _)
alloc_scan_buddy_c(i, fa) ==
    IF ~(i < MAX_ORDER) THEN NULL
    ELSE IF ~list_empty(fa, i) THEN i
    ELSE alloc_scan_buddy_c(i + 1, fa)

\* the pointer to g_pages[idx] itself (return(entry)), which is no arena address
PageRecordPtr(idx) == 0 - (idx + 2)

\* status "returned": the function returns ret; "split": entry was found on a
\* larger list and split(order, cur_index) is called; "null_entry": the loop
\* found nothing and entry, still NULL, is dereferenced
buddy_alloc_buddy_c(size, fa, pages) ==
    IF size <= 0 \/ size > MEMORY_AREA
    THEN [status |-> "returned", ret |-> NULL, free_area |-> fa,
          g_pages |-> pages, split |-> <<>>]
    ELSE LET order == order_exp_buddy_c(size)
             k     == alloc_scan_buddy_c(order, fa)
         IN  IF k = NULL
             THEN [status |-> "null_entry", ret |-> NULL, free_area |-> fa,
                   g_pages |-> pages, split |-> <<>>]
             ELSE LET idx == Head(fa[k])
                  IN  IF k = order
                      THEN [status |-> "returned", ret |-> PageRecordPtr(idx),
                            free_area |-> list_del(fa, idx),
                            g_pages |-> pages, split |-> <<>>]
                      ELSE [status |-> "split", ret |-> NULL,
                            free_area |-> list_del(fa, idx),
                            g_pages |-> [pages EXCEPT ![idx].block_size = order],
                            split |-> <<order, idx>>]

\* ------------------------------------------------------------------------
\* buddy_free
\* ------------------------------------------------------------------------
\* the list the merge loop walks at order i
buddy_list_any(fa, i) ==
    LET RECURSIVE cat(_)
        cat(o) == IF o > MAX_ORDER THEN <<>> ELSE fa[o] \o cat(o + 1)
    IN  cat(MIN_ORDER)

buddy_list(fa, i) == fa[i]

\* buddy_block after list_for_each: NULL on an empty list, the first entry
\* whose block_address is target, or else the last entry visited
find_buddy(list, target, pages) ==
    IF list = <<>> THEN NULL
    ELSE IF \E k \in 1 .. Len(list) : pages[list[k]].block_address = target
    THEN list[CHOOSE k \in 1 .. Len(list) :
                /\ pages[list[k]].block_address = target
                /\ \A j \in 1 .. (k - 1) : pages[list[j]].block_address # target]
    ELSE list[Len(list)]

\* addr and free_index after comparing addr with the buddy's address
merge_base_keep(addr, free_index, buddy_addr) ==
    [addr |-> addr, free_index |-> free_index]

merge_base(addr, free_index, buddy_addr) ==
    IF addr > buddy_addr
    THEN [addr |-> buddy_addr, free_index |-> ADDR_TO_PAGE(buddy_addr)]
    ELSE [addr |-> addr, free_index |-> free_index]

\* the block is put on free_area[i] and the function returns
free_insert(i, free_index, fa, pages) ==
    [free_area |-> list_add(fa, free_index, i),
     g_pages   |-> [pages EXCEPT ![free_index].block_size = 0 - 1]]

\* a release that never looks for the buddy
free_loop_no_merge(i, addr, free_index, fa, pages) ==
    free_insert(i, free_index, fa, pages)

\* a merge that leaves the buddy it merged with on its list
RECURSIVE free_loop_keep_buddy(_, _, _, _, _)
free_loop_keep_buddy(i, addr, free_index, fa, pages) ==
    IF i > MAX_ORDER
    THEN [free_area |-> fa, g_pages |-> pages]
    ELSE LET buddy_block == find_buddy(buddy_list(fa, i), BUDDY_ADDR(addr, i), pages)
         IN  IF buddy_block = NULL
             THEN free_insert(i, free_index, fa, pages)
             ELSE IF pages[buddy_block].block_address # BUDDY_ADDR(addr, i)
             THEN free_insert(i, free_index, fa, pages)
             ELSE LET m == merge_base(addr, free_index,
                                      pages[buddy_block].block_address)
                  IN  free_loop_keep_buddy(i + 1, m.addr, m.free_index, fa, pages)

\* the merge loop from order i on, for i inside the free_area array
RECURSIVE free_loop(_, _, _, _, _)
free_loop(i, addr, free_index, fa, pages) ==
    IF i > MAX_ORDER
    THEN [free_area |-> fa, g_pages |-> pages]
    ELSE LET buddy_block == find_buddy(buddy_list(fa, i), BUDDY_ADDR(addr, i), pages)
         IN  IF buddy_block = NULL
             THEN free_insert(i, free_index, fa, pages)
             ELSE IF pages[buddy_block].block_address # BUDDY_ADDR(addr, i)
             THEN free_insert(i, free_index, fa, pages)
             ELSE LET m == merge_base(addr, free_index,
                                      pages[buddy_block].block_address)
                  IN  free_loop(i + 1, m.addr, m.free_index,
                                list_del(fa, buddy_block), pages)

\* free_order as buddy_free reads it from the page record
free_order_of(addr, pages) == pages[ADDR_TO_PAGE(addr)].block_size

\* the first index of the merge loop lies inside free_area[MIN_ORDER..MAX_ORDER]
free_index_in_range(addr, pages) == free_order_of(addr, pages) \in Orders

buddy_free(addr, fa, pages) ==
    free_loop(free_order_of(addr, pages), addr, ADDR_TO_PAGE(addr), fa, pages)

\* ------------------------------------------------------------------------
\* State
\* ------------------------------------------------------------------------
VARIABLES
    free_area,  \* free_area[o]: page indices on the free list of order o
    g_pages,    \* g_pages[i]: the page record of page i
    live,       \* the caller's live allocations: [addr, order requested]
    dup,        \* buddy_alloc has returned an address that was live
    oob,        \* "none", or what an access of free_area[-1] has done:
                \* "fault" (the process died) or "lost" (it went on)
    last,       \* the last call: [op, arg, ret]; arg is the size, the address,
                \* or for buddy_init the number of blocks live when it ran;
                \* ret is the address returned, or for buddy_free the order
                \* the released block was requested with
    pre,        \* the free lists before the last buddy_alloc on an idle allocator
    phase,      \* calls since buddy_init: "allocs" (successful buddy_alloc
                \* only), then "frees" (buddy_free only), else "mixed"
    frame       \* a single function followed on its own: [fn, args, steps,
                \* status, ret]; NoFrame while the allocator is driven
                \* through buddy_init, buddy_alloc and buddy_free

vars == <<free_area, g_pages, live, dup, oob, last, pre, phase, frame>>

NoFrame == [fn |-> "none", args |-> <<>>, steps |-> 0, status |-> "none",
            ret |-> NULL]

\* value of pre when the last buddy_alloc was not made on an idle allocator
NoPre == [o \in Orders |-> <<NULL>>]

crashed == oob = "fault"

ValidSize(size) == size >= 1 /\ size <= MEMORY_AREA

Init ==
    /\ free_area = buddy_init.free_area
    /\ g_pages = buddy_init.g_pages
    /\ live = {}
    /\ dup = FALSE
    /\ oob = "none"
    /\ last = [op |-> "init", arg |-> 0, ret |-> NULL]
    /\ pre = NoPre
    /\ phase = "allocs"
    /\ frame = NoFrame

BuddyInit ==
    /\ ~crashed
    /\ free_area' = buddy_init.free_area
    /\ g_pages' = buddy_init.g_pages
    /\ live' = {}
    /\ last' = [op |-> "init", arg |-> Cardinality(live), ret |-> NULL]
    /\ pre' = NoPre
    /\ phase' = "allocs"
    /\ UNCHANGED <<dup, oob, frame>>

BuddyAlloc(size) ==
    /\ ~crashed
    /\ Cardinality(live) < MaxLive
    /\ LET r == buddy_alloc(size, free_area, g_pages)
       IN  /\ free_area' = r.free_area
           /\ g_pages' = r.g_pages
           /\ live' = IF r.ret = NULL THEN live
                      ELSE live \cup {[addr |-> r.ret, order |-> order_exp(size)]}
           /\ dup' = (dup \/ \E b \in live : b.addr = r.ret)
           /\ last' = [op |-> "alloc", arg |-> size, ret |-> r.ret]
           /\ pre' = IF live = {} /\ r.ret # NULL THEN free_area ELSE NoPre
           /\ phase' = IF phase = "allocs" /\ r.ret # NULL THEN "allocs" ELSE "mixed"
    /\ UNCHANGED <<oob, frame>>

\* buddy_free of a live block whose recorded order is a valid list index
FreeInRange(b) ==
    /\ free_index_in_range(b.addr, g_pages)
    /\ LET r == buddy_free(b.addr, free_area, g_pages)
       IN  /\ free_area' = r.free_area
           /\ g_pages' = r.g_pages
    /\ live' = live \ {b}
    /\ UNCHANGED oob

\* buddy_free of a live block whose recorded order is -1: the merge loop
\* starts at free_area[-1], in front of the array.  Either the process
\* faults on what it finds there and the call never returns ...
FreeOutOfBoundsFault(b) ==
    /\ ~free_index_in_range(b.addr, g_pages)
    /\ oob' = "fault"
    /\ UNCHANGED <<free_area, g_pages, live>>

\* ... or what is there walks like a list: no entry of it has the buddy's
\* address, so the block is linked at free_area[-1] and the call returns.
\* The block is then on none of the free lists of Orders.
FreeOutOfBoundsLost(b) ==
    /\ ~free_index_in_range(b.addr, g_pages)
    /\ oob' = "lost"
    /\ g_pages' = [g_pages EXCEPT ![ADDR_TO_PAGE(b.addr)].block_size = 0 - 1]
    /\ live' = live \ {b}
    /\ UNCHANGED free_area

BuddyFree(b) ==
    /\ ~crashed
    /\ b \in live
    /\ \/ FreeInRange(b)
       \/ FreeOutOfBoundsFault(b)
       \/ FreeOutOfBoundsLost(b)
    /\ last' = [op |-> "free", arg |-> b.addr, ret |-> b.order]
    /\ pre' = IF last.op = "alloc" /\ last.ret = b.addr THEN pre ELSE NoPre
    /\ phase' = IF phase = "mixed" THEN "mixed" ELSE "frees"
    /\ UNCHANGED <<dup, frame>>

Next ==
    \/ BuddyInit
    \/ \E size \in {sz \in Sizes : ValidSize(sz)} : BuddyAlloc(size)
    \/ \E size \in {sz \in Sizes : ~ValidSize(sz)} : BuddyAlloc(size)
    \/ \E b \in live : BuddyFree(b)

Spec == Init /\ [][Next]_vars

\* ------------------------------------------------------------------------
\* Blocks and pages
\* ------------------------------------------------------------------------
\* the pages of the block of order o at byte offset addr
BlockPages(addr, o) ==
    {ADDR_TO_PAGE(addr) + k : k \in 0 .. (2 ^ (o - MIN_ORDER) - 1)}

\* the entries of the free lists fa: <<order of the list, place, page index>>
FreeEntries(fa) ==
    UNION {{<<o, k, fa[o][k]>> : k \in 1 .. Len(fa[o])} : o \in Orders}

\* the pages of a free-list entry, taken at the order of its list
EntryPages(e) == BlockPages(PAGE_TO_ADDR(e[3]), e[1])

LivePages(b) == BlockPages(b.addr, b.order)

\* the state buddy_init leaves, said without buddy_init
PostInitLists(fa) ==
    /\ \A o \in Orders \ {MAX_ORDER} : fa[o] = <<>>
    /\ fa[MAX_ORDER] = <<0>>

\* ------------------------------------------------------------------------
\* C1  Partition invariant: the blocks on the free lists (at their list's
\* order) and the live blocks (at the order requested) tile the arena:
\* every page belongs to exactly one of them.  Stated of the states reached
\* with every index of free_area in range, where no call has faulted.
\* ------------------------------------------------------------------------
Partition ==
    \A p \in PageIdx :
        Cardinality({e \in FreeEntries(free_area) : p \in EntryPages(e)})
          + Cardinality({b \in live : p \in LivePages(b)}) = 1

PartitionInvariant == oob = "none" => Partition

\* ------------------------------------------------------------------------
\* C2  No two live allocations overlap, and no page of a live allocation
\* lies inside a block that is on a free list: buddy_alloc never returns an
\* address that is live, the live blocks are pairwise disjoint, and each is
\* disjoint from every free-list block.
\* ------------------------------------------------------------------------
NoLiveOverlap ==
    /\ ~dup
    /\ \A b1, b2 \in live : b1 # b2 => LivePages(b1) \cap LivePages(b2) = {}
    /\ \A b \in live : \A e \in FreeEntries(free_area) :
           LivePages(b) \cap EntryPages(e) = {}

\* two blocks are live and some block is on a free list
NoLiveOverlapWitness ==
    /\ Cardinality(live) >= 2
    /\ FreeEntries(free_area) # {}
    /\ last.op = "alloc"
    /\ last.ret # NULL

\* ------------------------------------------------------------------------
\* C3  Invalid request size is rejected: buddy_alloc(size) with size <= 0 or
\* size > 2^MAX_ORDER returns NULL and leaves every free list and every page
\* record unchanged.
\* ------------------------------------------------------------------------
InvalidSizeStep ==
    (last'.op = "alloc" /\ ~ValidSize(last'.arg)) =>
        /\ last'.ret = NULL
        /\ UNCHANGED <<free_area, g_pages>>

InvalidSizeRejected == [][InvalidSizeStep]_vars

\* ------------------------------------------------------------------------
\* C4  Exhaustion: when every free list of order order_exp(size) ..
\* MAX_ORDER is empty, buddy_alloc(size) returns NULL and changes no free
\* list and no page record; right after buddy_init a request of order
\* MAX_ORDER returns the arena base, and a request of order MAX_ORDER made
\* while that block is live returns NULL.
\* ------------------------------------------------------------------------
ExhaustionStep ==
    last'.op = "alloc" =>
        /\ (\A o \in order_exp(last'.arg) .. MAX_ORDER : free_area[o] = <<>>) =>
               /\ last'.ret = NULL
               /\ UNCHANGED <<free_area, g_pages>>
        /\ (last.op = "init" /\ order_exp(last'.arg) = MAX_ORDER) =>
               last'.ret = 0
        /\ ([addr |-> 0, order |-> MAX_ORDER] \in live
              /\ order_exp(last'.arg) = MAX_ORDER) =>
               last'.ret = NULL

Exhaustion == [][ExhaustionStep]_vars

\* the second request of order MAX_ORDER has failed while the first is live
ExhaustionWitness ==
    /\ last.op = "alloc"
    /\ last.ret = NULL
    /\ order_exp(last.arg) = MAX_ORDER
    /\ live = {[addr |-> 0, order |-> MAX_ORDER]}

\* ------------------------------------------------------------------------
\* C5  Maximal merge: after every buddy_free of a live address no free list
\* of an order below MAX_ORDER holds two blocks that are mutual buddies.
\* ------------------------------------------------------------------------
NoBuddyPair ==
    \A o \in MIN_ORDER .. (MAX_ORDER - 1) :
        \A j, k \in 1 .. Len(free_area[o]) :
            j # k =>
                PAGE_TO_ADDR(free_area[o][j])
                    # BUDDY_ADDR(PAGE_TO_ADDR(free_area[o][k]), o)

MaximalMerge == last.op = "free" => NoBuddyPair

\* a block other than the arena base was freed and the merges went up to
\* MAX_ORDER
MaximalMergeWitness ==
    /\ last.op = "free"
    /\ last.arg # 0
    /\ ~crashed
    /\ free_area[MAX_ORDER] = <<0>>

\* ------------------------------------------------------------------------
\* C6  No premature merge: buddy_free unlinks a block from a free list only
\* if that block is, at the order i the merge has reached, the buddy of the
\* block being released and is on the free list of exactly order i.  The
\* block buddy_free inserts therefore covers the released block (at its
\* recorded order) and the unlinked blocks (at their lists' orders) and
\* nothing else, and no live block loses a page to it.
\* ------------------------------------------------------------------------
\* <<order, page index>> of the entries a step unlinks and links
Members(list) == {list[k] : k \in 1 .. Len(list)}

Unlinked ==
    UNION {{<<o, x>> : x \in Members(free_area[o]) \ Members(free_area'[o])} :
           o \in Orders}

Linked ==
    UNION {{<<o, x>> : x \in Members(free_area'[o]) \ Members(free_area[o])} :
           o \in Orders}

\* addr with the bits below bit o cleared
BaseAt(addr, o) == (addr \div (2 ^ o)) * (2 ^ o)

NoPrematureMergeStep ==
    (last'.op = "free" /\ oob' = oob) =>
        LET addr == last'.arg
            rec  == g_pages[ADDR_TO_PAGE(addr)].block_size
        IN  /\ \A e \in Unlinked :
                /\ e[1] >= rec
                /\ PAGE_TO_ADDR(e[2]) = BUDDY_ADDR(BaseAt(addr, e[1]), e[1])
            /\ \A e \in Linked :
                BlockPages(PAGE_TO_ADDR(e[2]), e[1])
                    = BlockPages(addr, rec)
                        \cup UNION {BlockPages(PAGE_TO_ADDR(u[2]), u[1]) : u \in Unlinked}
            /\ \A e \in Linked : \A b \in live' :
                BlockPages(PAGE_TO_ADDR(e[2]), e[1]) \cap LivePages(b) = {}
            /\ Unlinked # {} => Linked # {}

NoPrematureMerge == [][NoPrematureMergeStep]_vars

\* the released block has been merged with its buddy while other blocks
\* are live: it lies in a free block of a higher order than its own
NoPrematureMergeWitness ==
    /\ last.op = "free"
    /\ oob = "none"
    /\ live # {}
    /\ \E e \in FreeEntries(free_area) :
          /\ ADDR_TO_PAGE(last.arg) \in EntryPages(e)
          /\ e[1] > last.ret

\* ------------------------------------------------------------------------
\* C7  Round trip: on an allocator with no live allocation, buddy_alloc(s)
\* with a valid s succeeds, and a buddy_free of the returned address right
\* after it returns and leaves every free list as it was before the
\* buddy_alloc.
\* ------------------------------------------------------------------------
RoundTripStep ==
    /\ (last'.op = "alloc" /\ ValidSize(last'.arg) /\ live = {}) =>
           last'.ret # NULL
    /\ (last.op = "alloc" /\ ValidSize(last.arg) /\ pre # NoPre
          /\ last'.op = "free" /\ last'.arg = last.ret) =>
           /\ ~crashed'
           /\ free_area' = pre

RoundTrip == [][RoundTripStep]_vars

\* ------------------------------------------------------------------------
\* C8  Merge back to full: after buddy_init, a sequence of successful
\* buddy_alloc calls followed by buddy_free of every returned address, in
\* any order, completes and leaves the free lists as buddy_init leaves them:
\* page 0 alone on the MAX_ORDER list, every other list empty.
\* ------------------------------------------------------------------------
MergeBackToFull ==
    phase = "frees" =>
        /\ ~crashed
        /\ live = {} => PostInitLists(free_area)

\* ------------------------------------------------------------------------
\* C9  Alignment: every non-NULL address buddy_alloc(s) returns lies inside
\* the arena, with the whole block of order order_exp(s), and its offset
\* from the arena base is a multiple of 2^order_exp(s).
\* ------------------------------------------------------------------------
Alignment ==
    (last.op = "alloc" /\ last.ret # NULL) =>
        /\ last.ret >= 0
        /\ last.ret + 2 ^ order_exp(last.arg) <= MEMORY_AREA
        /\ last.ret % (2 ^ order_exp(last.arg)) = 0

\* a block above the arena base and larger than a page was returned
AlignmentWitness ==
    /\ last.op = "alloc"
    /\ last.ret > 0
    /\ order_exp(last.arg) > MIN_ORDER

\* ------------------------------------------------------------------------
\* C10  Initialization: buddy_init, run from any state, leaves every free
\* list empty except the MAX_ORDER list, which holds exactly page 0; page
\* 0's order field is MAX_ORDER and every other page record's is -1.
\* ------------------------------------------------------------------------
Initialization ==
    last.op = "init" =>
        /\ \A o \in Orders : o # MAX_ORDER => Len(free_area[o]) = 0
        /\ Len(free_area[MAX_ORDER]) = 1
        /\ free_area[MAX_ORDER][1] = 0
        /\ g_pages[0].block_size = MAX_ORDER
        /\ \A i \in PageIdx : i # 0 => g_pages[i].block_size = 0 - 1

\* buddy_init has run while blocks were live and page records held orders
InitializationWitness ==
    /\ last.op = "init"
    /\ last.arg >= 2

\* ------------------------------------------------------------------------
\* C11  Split result: when buddy_alloc with target order o takes a free
\* block of order k > o with base b, it returns b and adds exactly one block
\* to the free list of each order j in o .. k-1, the block at offset b + 2^j,
\* and adds nothing to any other list; right after buddy_init a request of
\* order MIN_ORDER+1 leaves one free block at each order MIN_ORDER+1 ..
\* MAX_ORDER-1 and none at MAX_ORDER or MIN_ORDER.
\* ------------------------------------------------------------------------
SplitResultStep ==
    (last'.op = "alloc" /\ last'.ret # NULL) =>
        LET o  == order_exp(last'.arg)
            ne == {j \in o .. MAX_ORDER : free_area[j] # <<>>}
        IN  /\ ne # {}
            /\ LET k == CHOOSE j \in ne : \A i \in ne : j <= i
                   b == PAGE_TO_ADDR(Head(free_area[k]))
               IN  k > o =>
                     /\ last'.ret = b
                     /\ \A j \in o .. (k - 1) :
                          /\ Len(free_area'[j]) = Len(free_area[j]) + 1
                          /\ Members(free_area'[j]) \ Members(free_area[j])
                               = {ADDR_TO_PAGE(b + 2 ^ j)}
                     /\ \A j \in Orders \ (o .. (k - 1)) :
                          Members(free_area'[j]) \subseteq Members(free_area[j])
            /\ (last.op = "init" /\ o = MIN_ORDER + 1) =>
                 /\ \A j \in (MIN_ORDER + 1) .. (MAX_ORDER - 1) :
                      Len(free_area'[j]) = 1
                 /\ Len(free_area'[MAX_ORDER]) = 0
                 /\ Len(free_area'[MIN_ORDER]) = 0

SplitResult == [][SplitResultStep]_vars

\* a request of order MIN_ORDER has split the whole arena: the base is
\* returned and every order below MAX_ORDER holds one block
SplitResultWitness ==
    /\ last.op = "alloc"
    /\ last.ret = 0
    /\ order_exp(last.arg) = MIN_ORDER
    /\ free_area[MAX_ORDER] = <<>>
    /\ \A j \in MIN_ORDER .. (MAX_ORDER - 1) :
          free_area[j] = <<ADDR_TO_PAGE(2 ^ j)>>

\* ------------------------------------------------------------------------
\* Single functions followed on their own.  A call is drawn in the initial
\* state; the allocator state is the one the function is called in.
\* ------------------------------------------------------------------------
Call(fn, args) ==
    [fn |-> fn, args |-> args, steps |-> 0, status |-> "called", ret |-> NULL]

\* sizes order_exp is called with
FnSizes == (0 - 1) .. (MEMORY_AREA + 1)

OrderExpCalls ==
    {Call(fn, <<size>>) : fn \in {"order_exp", "order_exp_buddy_c"},
                          size \in FnSizes}

\* the allocator state around a call of order_exp: the one buddy_init leaves
InitOrderExp ==
    /\ frame \in OrderExpCalls
    /\ free_area = buddy_init.free_area
    /\ g_pages = buddy_init.g_pages

OrderExp ==
    /\ frame.fn = "order_exp"
    /\ frame.status = "called"
    /\ frame' = [frame EXCEPT !.status = "returned",
                              !.ret = order_exp(frame.args[1])]
    /\ UNCHANGED <<free_area, g_pages, live, dup, oob, last, pre, phase>>

OrderExpBuddyC ==
    /\ frame.fn = "order_exp_buddy_c"
    /\ frame.status = "called"
    /\ frame' = [frame EXCEPT !.status = "returned",
                              !.ret = order_exp_buddy_c(frame.args[1])]
    /\ UNCHANGED <<free_area, g_pages, live, dup, oob, last, pre, phase>>

\* deepest recursion followed before the stack is taken as exhausted
StackDepth == (MAX_ORDER - MIN_ORDER) + 2

\* pages that can head a block of the order
AlignedPages(order) == {i \in PageIdx : PAGE_TO_ADDR(i) % (2 ^ order) = 0}

SplitCalls ==
    {Call("split", <<order, targetOrder, index>>) :
        order \in Orders, targetOrder \in Orders, index \in PageIdx}
    \cup {Call("split_buddy_c", <<order, index>>) :
        order \in Orders, index \in PageIdx}

\* the allocator state around a call of split: the block was just taken off
\* its list, the target order is not above the found order
InitSplit ==
    /\ frame \in {c \in SplitCalls :
                    /\ c.args[Len(c.args)] \in AlignedPages(c.args[1])
                    /\ c.fn = "split" => c.args[2] <= c.args[1]}
    /\ free_area = InitFreeLists
    /\ g_pages = buddy_init.g_pages

\* split of src/unnamed/part_000, level by level
SplitReturn ==
    /\ frame.fn = "split"
    /\ frame.status = "called"
    /\ frame.args[1] - frame.steps = frame.args[2]
    /\ frame' = [frame EXCEPT !.status = "returned"]
    /\ UNCHANGED <<free_area, g_pages, live, dup, oob, last, pre, phase>>

SplitLevel ==
    /\ frame.fn = "split"
    /\ frame.status = "called"
    /\ frame.args[1] - frame.steps # frame.args[2]
    /\ free_area' = list_add(free_area,
                             split_page(frame.args[1] - frame.steps, frame.args[3]),
                             frame.args[1] - frame.steps - 1)
    /\ frame' = [frame EXCEPT !.steps = @ + 1]
    /\ UNCHANGED <<g_pages, live, dup, oob, last, pre, phase>>

\* split of src/buddy.c, level by level
SplitBuddyCLevel ==
    /\ frame.fn = "split_buddy_c"
    /\ frame.status = "called"
    /\ frame.args[1] > MIN_ORDER
    /\ frame.steps < StackDepth
    /\ free_area' = split_buddy_c_level(frame.args[1], frame.args[2], free_area)
    /\ frame' = [frame EXCEPT !.steps = @ + 1]
    /\ UNCHANGED <<g_pages, live, dup, oob, last, pre, phase>>

\* free_area[MIN_ORDER - 1] was never initialised: list_add follows a null link
SplitBuddyCBelowMinOrder ==
    /\ frame.fn = "split_buddy_c"
    /\ frame.status = "called"
    /\ frame.args[1] = MIN_ORDER
    /\ frame' = [frame EXCEPT !.status = "fault"]
    /\ UNCHANGED <<free_area, g_pages, live, dup, oob, last, pre, phase>>

\* the recursion has no base case: the stack runs out
SplitBuddyCStackOverflow ==
    /\ frame.fn = "split_buddy_c"
    /\ frame.status = "called"
    /\ frame.steps = StackDepth
    /\ frame' = [frame EXCEPT !.status = "fault"]
    /\ UNCHANGED <<free_area, g_pages, live, dup, oob, last, pre, phase>>

\* buddy_alloc of src/buddy.c, called in the state its buddy_init leaves
InitBuddyAllocBuddyC ==
    /\ frame \in {Call("buddy_alloc_buddy_c", <<size>>) : size \in FnSizes}
    /\ free_area = buddy_init_buddy_c.free_area
    /\ g_pages = buddy_init_buddy_c.g_pages

\* what reading entry->page_index through the null entry can come to: the
\* access faults, or it yields some index and the call goes on into split
NullEntryOutcomes == {NULL} \cup PageIdx

BuddyAllocBuddyC ==
    /\ frame.fn = "buddy_alloc_buddy_c"
    /\ frame.status = "called"
    /\ LET r == buddy_alloc_buddy_c(frame.args[1], free_area, g_pages)
       IN  /\ free_area' = r.free_area
           /\ g_pages' = r.g_pages
           /\ CASE r.status = "returned" ->
                    frame' = [frame EXCEPT !.status = "returned", !.ret = r.ret]
                [] r.status = "split" ->
                    frame' = Call("split_buddy_c", r.split)
                [] r.status = "null_entry" ->
                    \E cur_index \in NullEntryOutcomes :
                        frame' = IF cur_index = NULL
                                 THEN [frame EXCEPT !.status = "fault"]
                                 ELSE Call("split_buddy_c",
                                           <<order_exp_buddy_c(frame.args[1]),
                                             cur_index>>)
    /\ UNCHANGED <<live, dup, oob, last, pre, phase>>

InitFn ==
    /\ live = {}
    /\ dup = FALSE
    /\ oob = "none"
    /\ last = [op |-> "init", arg |-> 0, ret |-> NULL]
    /\ pre = NoPre
    /\ phase = "allocs"
    /\ \/ InitOrderExp
       \/ InitSplit
       \/ InitBuddyAllocBuddyC

NextFn ==
    \/ OrderExp
    \/ OrderExpBuddyC
    \/ SplitReturn
    \/ SplitLevel
    \/ SplitBuddyCLevel
    \/ SplitBuddyCBelowMinOrder
    \/ SplitBuddyCStackOverflow
    \/ BuddyAllocBuddyC

SpecFn == InitFn /\ [][NextFn]_vars

\* ------------------------------------------------------------------------
\* C12  Order computation: for every size s with 1 <= s <= 2^MAX_ORDER,
\* order_exp(s) returns the smallest order o in MIN_ORDER .. MAX_ORDER with
\* 2^o >= s (order_exp of src/unnamed/part_000 and of src/buddy.c).
\* ------------------------------------------------------------------------
OrderComputation ==
    (/\ frame.fn \in {"order_exp", "order_exp_buddy_c"}
     /\ frame.status = "returned"
     /\ ValidSize(frame.args[1])) =>
        /\ frame.ret \in Orders
        /\ 2 ^ frame.ret >= frame.args[1]
        /\ \A o \in Orders : 2 ^ o >= frame.args[1] => frame.ret <= o

\* order_exp has returned MIN_ORDER+1 for the exact power of two 2^(MIN_ORDER+1)
OrderComputationWitness ==
    /\ frame.fn = "order_exp"
    /\ frame.status = "returned"
    /\ frame.args[1] = 2 ^ (MIN_ORDER + 1)
    /\ frame.ret = MIN_ORDER + 1

\* ------------------------------------------------------------------------
\* C13  Bounded termination: split, called for a found order k and a target
\* order o, performs exactly k - o halving steps and then returns, never more
\* than MAX_ORDER - MIN_ORDER steps; for the split of src/buddy.c as well as
\* that of src/unnamed/part_000.
\* ------------------------------------------------------------------------
SplitBounded ==
    frame.fn \in {"split", "split_buddy_c"} =>
        /\ frame.steps <= MAX_ORDER - MIN_ORDER
        /\ frame.status # "fault"
        /\ (frame.fn = "split" /\ frame.status = "returned") =>
              /\ frame.steps = frame.args[1] - frame.args[2]
              /\ free_area = split(frame.args[1], frame.args[2], frame.args[3],
                                   InitFreeLists)

\* ------------------------------------------------------------------------
\* C14  Order is recorded on every allocation: after a successful
\* buddy_alloc(s), with or without a split, the order field of the returned
\* block's head page record equals order_exp(s), and it keeps that value
\* until the block is passed to buddy_free.
\* ------------------------------------------------------------------------
OrderRecorded ==
    \A b \in live : g_pages[ADDR_TO_PAGE(b.addr)].block_size = b.order

\* ------------------------------------------------------------------------
\* C15  Free-list heads carry their order: every page record that is a
\* member of the free list of order o has its order field equal to o, the
\* upper halves inserted by split and the block inserted by buddy_free too.
\* ------------------------------------------------------------------------
FreeHeadsCarryOrder ==
    \A o \in Orders : \A p \in Members(free_area[o]) :
        g_pages[p].block_size = o

\* ------------------------------------------------------------------------
\* C16  Smallest-fit scan through MAX_ORDER: buddy_alloc with a valid size
\* looks at every list from order_exp(size) up to and including MAX_ORDER,
\* so the first valid buddy_alloc after buddy_init succeeds and returns the
\* arena base; for buddy_alloc of src/buddy.c as well.
\* ------------------------------------------------------------------------
FirstAllocSucceeds ==
    (/\ frame.fn = "buddy_alloc_buddy_c"
     /\ frame.status # "called"
     /\ ValidSize(frame.args[1])) =>
        /\ frame.status = "returned"
        /\ frame.ret = PAGE_TO_ADDR(0)

\* ------------------------------------------------------------------------
\* C17  Result of a release: buddy_free of a live block of order o at offset
\* a, merging k >= 0 times, removes exactly the k buddies it merged with,
\* one from each free list of order o .. o+k-1, and inserts exactly one
\* block, into the free list of order o+k, at a with bits o .. o+k-1
\* cleared; nothing else changes in any free list.
\* ------------------------------------------------------------------------
ReleaseResultStep ==
    (last'.op = "free" /\ oob' = "none") =>
        LET a == last'.arg
            o == last'.ret
        IN  \E k \in 0 .. (MAX_ORDER - o) :
              /\ Unlinked = {<<j, ADDR_TO_PAGE(BUDDY_ADDR(BaseAt(a, j), j))>> :
                                j \in o .. (o + k - 1)}
              /\ Linked = {<<o + k, ADDR_TO_PAGE(BaseAt(a, o + k))>>}

ReleaseResult == [][ReleaseResultStep]_vars

\* ------------------------------------------------------------------------
\* C18  Free-list membership is exclusive: each page record is a member of
\* at most one free list and appears in it at most once, and the head page
\* of every live allocated block is a member of no free list.
\* ------------------------------------------------------------------------
ExclusiveMembership ==
    /\ \A e1, e2 \in FreeEntries(free_area) : e1[3] = e2[3] => e1 = e2
    /\ \A b \in live : \A e \in FreeEntries(free_area) :
           e[3] # ADDR_TO_PAGE(b.addr)

\* a release has merged the block with its buddy while another block is live
\* and another block is free
ExclusiveMembershipWitness ==
    /\ last.op = "free"
    /\ oob = "none"
    /\ live # {}
    /\ Cardinality(FreeEntries(free_area)) >= 2
    /\ \E e \in FreeEntries(free_area) :
           /\ e[1] > last.ret
           /\ last.arg \div PAGE_SIZE \in EntryPages(e)

\* ------------------------------------------------------------------------
\* C19  Indices stay in range: for every buddy_free of an address that
\* buddy_alloc returned and that was not freed since, the starting order
\* read from the page record and every free-list index the merge loop uses
\* lie in MIN_ORDER .. MAX_ORDER.
\* ------------------------------------------------------------------------
IndicesInRange == oob = "none"

====
